---- MODULE Spec2Model ----
(***************************************************************************)
(* A model of propertyestimator/utils/statistics.py: the stratified        *)
(* bootstrap estimator `bootstrap`.                                        *)
(*                                                                         *)
(* numpy arrays are objects with identity, so the model keeps a heap of    *)
(* arrays (identifier -> sequence of numbers) and the dictionaries of the  *)
(* code (data_kwargs, data_to_bootstrap, sample_data) map a keyword to an  *)
(* array identifier.  Floating-point numbers are modelled by integers and  *)
(* a standard deviation by its value in fixed point (StdScale units per    *)
(* 1.0), rounded down.  One behaviour is one call of bootstrap: Init is    *)
(* the moment of the call, with the arguments bound.                       *)
(*                                                                         *)
(* The module also models the StatisticsArray container of the same file   *)
(* (StatisticsSpec) and the Mixture of propertyestimator/substances.py     *)
(* (MixtureSpec).  Each specification keeps the variables of the other     *)
(* components at their idle values.                                        *)
(***************************************************************************)
EXTENDS Integers, Sequences, FiniteSets, TLC

\* ------------------------------------------------------------------ bounds
\* longest named series passed to bootstrap
MaxLen == 3
\* largest iteration count passed to bootstrap
MaxIterations == 2
\* most indices a call draws for one series in all its trials
MaxDrawn == 6
\* relative_sample_size ranges over k / RssDen, k in 1..RssDen, i.e. (0, 1]
RssDen == 2
\* fixed-point resolution of a standard deviation
StdScale == 100

\* ----------------------------------------------------------------- helpers
RECURSIVE SumSeq(_)
SumSeq(s) == IF s = <<>> THEN 0 ELSE Head(s) + SumSeq(Tail(s))

Zeros(n) == [i \in 1..n |-> 0]

Abs(a) == IF a < 0 THEN -a ELSE a

Min2(a, b) == IF a < b THEN a ELSE b

RECURSIVE ISqrtIn(_, _, _)
ISqrtIn(n, lo, hi) ==
    IF lo = hi THEN lo
    ELSE LET mid == (lo + hi + 1) \div 2
         IN  IF mid * mid <= n THEN ISqrtIn(n, mid, hi) ELSE ISqrtIn(n, lo, mid - 1)

\* floor of the square root of a natural number
ISqrt(n) == ISqrtIn(n, 0, Min2(n, 46340))

\* --------------------------------------------------------------- the inputs
Keywords == {"values", "frames"}

\* the orders in which the named series can be supplied (**data_kwargs keeps
\* the order of the call)
KeywordOrders ==
    { <<>>, <<"values">>, <<"frames">>,
      <<"values", "frames">>, <<"frames", "values">> }

\* arrays the caller can pass under "values": a series of two values, with
\* repeats
Values == {1, 2}

ValueArrays == UNION { [1..n -> Values] : n \in 1..MaxLen }

\* arrays the caller can pass under "frames": the frame numbers 1..n, which
\* tell the frames of a series apart
FrameArrays == { [i \in 1..n |-> i] : n \in 1..MaxLen }

\* group partitions: sequences of positive integers
RECURSIVE Compositions(_)
Compositions(n) ==
    IF n = 0 THEN { <<>> }
    ELSE UNION { { <<c>> \o rest : rest \in Compositions(n - c) } : c \in 1..n }

\* the partitions the caller can pass: two groups or more (one group is the
\* default, data_sub_counts=None)
SubCountArrays ==
    { c \in UNION { Compositions(n) : n \in 1..MaxLen } : Len(c) >= 2 }

\* aggregation functions the caller can pass
BootstrapFunctions == {"constant", "weighted_sum", "partial"}

ConstantValue == 1

VARIABLES
    bootstrap_function,     \* argument: the aggregation function
    iterations,             \* argument
    relative_sample_size,   \* argument: numerator k of k / RssDen
    kw_order,               \* iteration order of data_kwargs
    data_kwargs,            \* argument: keyword -> array identifier
    data_sub_counts,        \* argument, then local: array identifier or "None"
    heap,                   \* array identifier -> contents
    original,               \* the heap at the moment of the call
    pc,                     \* position in bootstrap
    error,                  \* the exception raised, if any
    kw_index,               \* keywords of the copy loop done so far
    data_to_bootstrap,      \* keyword -> array identifier
    data_size,
    average_values,
    bootstrap_iteration,
    sample_data,            \* keyword -> array identifier
    start_index,
    group,                  \* 1-based position in data_sub_counts
    draws,                  \* number of np.random.choice calls so far
    calls,                  \* log of bootstrap_function invocations
    average_value,
    uncertainty

vars == << bootstrap_function, iterations, relative_sample_size, kw_order,
           data_kwargs, data_sub_counts, heap, original, pc, error, kw_index,
           data_to_bootstrap, data_size, average_values, bootstrap_iteration,
           sample_data, start_index, group, draws, calls,
           average_value, uncertainty >>

arguments == << bootstrap_function, iterations, relative_sample_size, kw_order,
                data_kwargs, original >>

\* data_size = None
NoSize == -1

NoError == [type |-> "none", line |-> 0]

\* ------------------------------------------- the other components' state
VARIABLES
    sa_pc,          \* what the StatisticsArray scenario has done so far
    sa_existing,    \* the StatisticsArray made first
    sa_supplied,    \* the arguments __init__ got when sa_existing was made
    sa_file,        \* the file written by save_as_pandas_csv
    sa_result,      \* the StatisticsArray made from sa_existing or sa_file
    sa_call         \* the last call: its name, arguments and exception

statistics_vars == << sa_pc, sa_existing, sa_supplied, sa_file, sa_result,
                      sa_call >>

VARIABLES
    mix_components, \* Mixture._components
    mix_call,       \* the last add_component call and its outcome
    mix_state,      \* what __getstate__ returned
    mix_rebuilt,    \* _components of the mixture rebuilt by __setstate__
    mix_other       \* a second Mixture, made of components of the first

mixture_vars == << mix_components, mix_call, mix_state, mix_rebuilt,
                   mix_other >>

VARIABLES
    ds_heap,        \* the list objects: list identifier -> contents
    ds_properties,  \* data set -> its _properties: substance -> list identifier
    ds_sources,     \* data set -> its _sources: list identifier
    ds_call,        \* the last call, with the state before it
    ds_count        \* number of calls so far

dataset_vars == << ds_heap, ds_properties, ds_sources, ds_call, ds_count >>

\* Python's None
PyNone == [kind |-> "None"]

\* no object made, no file written, no call made
NoObject == [class |-> "none"]

NoFile == [format |-> "none"]

NoCall == [name |-> "none", error |-> NoError]

StatisticsIdle ==
    /\ sa_pc = "idle"
    /\ sa_existing = NoObject
    /\ sa_supplied = << >>
    /\ sa_file = NoFile
    /\ sa_result = NoObject
    /\ sa_call = NoCall

MixtureIdle ==
    /\ mix_components = << >>
    /\ mix_call = NoCall
    /\ mix_state = PyNone
    /\ mix_rebuilt = PyNone
    /\ mix_other = PyNone

\* no data set exists
DataSetIdle ==
    /\ ds_heap = << >>
    /\ ds_properties = << >>
    /\ ds_sources = << >>
    /\ ds_call = NoCall
    /\ ds_count = 0

\* ------------------------------------------------------- array identifiers
CallerId(kw) == "caller:" \o kw

CallerSubCountsId == "caller:data_sub_counts"

\* np.array(data_kwargs[keyword]) makes a new array (line 341)
CopyId(kw) == "copy:" \o kw

\* slip: the trial writes into the caller's arrays instead of new ones
SampleIdAliased(kw) == CallerId(kw)

\* np.zeros(shape) makes a new array (line 360); the arrays of the previous
\* trial are garbage by then and their identifiers are used again
SampleId(kw) == "sample:" \o kw

\* np.array([data_size]) makes a new array (line 349)
DefaultSubCountsId == "default:data_sub_counts"

KeywordsOf(order) == { order[i] : i \in DOMAIN order }

\* the contents of the arrays a dictionary names
ArraysOf(h, dict) == [kw \in DOMAIN dict |-> h[dict[kw]]]

\* ------------------------------------------------ the aggregation functions
\* sum over the frames of the product of the named series at that frame
RECURSIVE FrameProduct(_, _, _)
FrameProduct(args, order, i) ==
    IF order = <<>> THEN 1
    ELSE args[Head(order)][i] * FrameProduct(args, Tail(order), i)

WeightedSum(args, order) ==
    SumSeq([i \in 1..Len(args[order[1]]) |-> FrameProduct(args, order, i)])

\* bootstrap_function(**args): a value, or an exception.  "partial" is a
\* function that is not defined everywhere: it raises where the weighted sum
\* is a multiple of 3.
Apply(fn, args, order) ==
    CASE fn = "constant"     -> [ok |-> TRUE, value |-> ConstantValue]
      [] fn = "weighted_sum" -> [ok |-> TRUE, value |-> WeightedSum(args, order)]
      [] fn = "partial"      -> [ok |-> WeightedSum(args, order) % 3 # 0,
                                 value |-> WeightedSum(args, order)]

\* ------------------------------------------------------------------- Init
InitHeap(order, va, fa, sc, with_counts) ==
    [id \in { CallerId(kw) : kw \in KeywordsOf(order) }
            \cup (IF with_counts THEN {CallerSubCountsId} ELSE {}) |->
        IF id = CallerSubCountsId THEN sc
        ELSE IF id = CallerId("values") THEN va ELSE fa]

Init ==
    /\ bootstrap_function \in BootstrapFunctions
    /\ iterations \in 1..MaxIterations
    /\ relative_sample_size \in 1..RssDen
    /\ kw_order \in KeywordOrders
    /\ data_kwargs = [kw \in KeywordsOf(kw_order) |-> CallerId(kw)]
    /\ data_sub_counts \in {"None", CallerSubCountsId}
    /\ \E va \in ValueArrays, fa \in FrameArrays, sc \in SubCountArrays :
          heap = InitHeap(kw_order, va, fa, sc, data_sub_counts # "None")
    /\ kw_order # << >> =>
          iterations * Len(heap[CallerId(kw_order[1])]) <= MaxDrawn
    /\ original = heap
    /\ pc = "start"
    /\ error = NoError
    /\ kw_index = 0
    /\ data_to_bootstrap = << >>
    /\ data_size = NoSize
    /\ average_values = << >>
    /\ bootstrap_iteration = 0
    /\ sample_data = << >>
    /\ start_index = 0
    /\ group = 1
    /\ draws = 0
    /\ calls = << >>
    /\ average_value = 0
    /\ uncertainty = 0
    /\ StatisticsIdle
    /\ MixtureIdle
    /\ DataSetIdle

\* an exception leaves bootstrap: nothing is returned
Raise(type, line) ==
    /\ pc' = "failed"
    /\ error' = [type |-> type, line |-> line]

\* --------------------------------------------------------------- validation
\* lines 331-332
CheckNoData ==
    /\ pc = "start"
    /\ IF Len(kw_order) = 0
       THEN Raise("ValueError", 332)
       ELSE pc' = "copy" /\ error' = error
    /\ UNCHANGED << statistics_vars, mixture_vars, dataset_vars, arguments, data_sub_counts, heap, kw_index,
                    data_to_bootstrap, data_size, average_values,
                    bootstrap_iteration, sample_data, start_index, group,
                    draws, calls, average_value, uncertainty >>

\* slip: the check only rejects a series longer than the first one
LengthsAtMost(size, array) == size >= Len(array)

\* line 346: assert data_size == len(data_kwargs[keyword])
LengthsAgree(size, array) == size = Len(array)

\* lines 338-346, one keyword of the loop
CopyKeyword ==
    /\ pc = "copy"
    /\ kw_index < Len(kw_order)
    /\ LET kw  == kw_order[kw_index + 1]
           src == heap[data_kwargs[kw]]
       IN  /\ heap' = (CopyId(kw) :> src) @@ heap
           /\ data_to_bootstrap' = (kw :> CopyId(kw)) @@ data_to_bootstrap
           /\ IF data_size = NoSize
              THEN data_size' = Len(src) /\ pc' = pc /\ error' = error
              ELSE /\ data_size' = data_size
                   /\ IF LengthsAgree(data_size, src)
                      THEN pc' = pc /\ error' = error
                      ELSE Raise("AssertionError", 346)
    /\ kw_index' = kw_index + 1
    /\ UNCHANGED << statistics_vars, mixture_vars, dataset_vars, arguments, data_sub_counts, average_values,
                    bootstrap_iteration, sample_data, start_index, group,
                    draws, calls, average_value, uncertainty >>

\* slip: the check only rejects a partition that is too long
SubCountsAtMost(counts, size) == SumSeq(counts) <= size

\* line 351: assert data_sub_counts.sum() == data_size
SubCountsAgree(counts, size) == SumSeq(counts) = size

\* lines 348-353, after the copy loop
CheckSubCounts ==
    /\ pc = "copy"
    /\ kw_index = Len(kw_order)
    /\ LET id == IF data_sub_counts = "None" THEN DefaultSubCountsId
                 ELSE data_sub_counts
           h  == IF data_sub_counts = "None"
                 THEN (DefaultSubCountsId :> << data_size >>) @@ heap
                 ELSE heap
       IN  /\ data_sub_counts' = id
           /\ heap' = h
           /\ IF SubCountsAgree(h[id], data_size)
              THEN /\ average_values' = Zeros(iterations)
                   /\ pc' = "trial"
                   /\ error' = error
              ELSE /\ average_values' = average_values
                   /\ Raise("AssertionError", 351)
    /\ UNCHANGED << statistics_vars, mixture_vars, dataset_vars, arguments, kw_index, data_to_bootstrap, data_size,
                    bootstrap_iteration, sample_data, start_index, group,
                    draws, calls, average_value, uncertainty >>

\* ------------------------------------------------------------------ trials
\* slip: range(iterations - 1)
MoreTrialsOffByOne == bootstrap_iteration < iterations - 1

\* line 355: for bootstrap_iteration in range(iterations)
MoreTrials == bootstrap_iteration < iterations

\* line 360: sample_data[keyword] = np.zeros(data_to_bootstrap[keyword].shape)
\* for every keyword: the heap once the arrays that `fresh` names are allocated
AllocZeros(h, fresh, source) ==
    [id \in DOMAIN h \cup { fresh[kw] : kw \in DOMAIN fresh } |->
        IF \E kw \in DOMAIN fresh : fresh[kw] = id
        THEN Zeros(Len(h[source[CHOOSE kw \in DOMAIN fresh : fresh[kw] = id]]))
        ELSE h[id]]

\* lines 355-362: a trial starts with fresh arrays of zeros
BeginTrial ==
    /\ pc = "trial"
    /\ MoreTrials
    /\ sample_data' = [kw \in DOMAIN data_to_bootstrap |-> SampleId(kw)]
    /\ heap' = AllocZeros(heap, [kw \in DOMAIN data_to_bootstrap |-> SampleId(kw)],
                           data_to_bootstrap)
    /\ start_index' = 0
    /\ group' = 1
    /\ pc' = "resample"
    /\ UNCHANGED << statistics_vars, mixture_vars, dataset_vars, arguments, data_sub_counts, error, kw_index,
                    data_to_bootstrap, data_size, average_values,
                    bootstrap_iteration, draws, calls,
                    average_value, uncertainty >>

\* line 367: min(math.floor(sub_count * relative_sample_size), sub_count)
SampleSize(sub_count) ==
    Min2((sub_count * relative_sample_size) \div RssDen, sub_count)

\* line 368: what np.random.choice(sub_count, sample_size) can return
Choices(sub_count, sample_size) == [1..sample_size -> 0..(sub_count - 1)]

\* slip: the slice forgets the offset of the group
SubDataFromZero(array, start, sub_count) == SubSeq(array, 1, sub_count)

\* line 372: data_to_bootstrap[keyword][start_index: start_index + sub_count]
SubData(array, start, sub_count) == SubSeq(array, start + 1, start + sub_count)

\* line 375: sub_data[sample_indices], indexing with an array of indices
Resampled(sub_data, indices) ==
    [i \in 1..Len(indices) |-> sub_data[indices[i] + 1]]

\* lines 370-375 for one group, `drawn` giving the indices used for each
\* keyword.  The loop of line 374 runs over range(sub_count): when fewer
\* than sub_count indices were drawn, sub_data[sample_indices][index] is out
\* of range at index = sample_size, in the first keyword, after the
\* positions before it were written.
ResampleWith(drawn) ==
    LET sub_count   == heap[data_sub_counts][group]
        sample_size == SampleSize(sub_count)
        Written(kw) == IF sample_size >= sub_count THEN sub_count
                       ELSE IF kw = kw_order[1] THEN sample_size ELSE 0
        NewArray(kw) ==
            LET old  == heap[sample_data[kw]]
                data == Resampled(SubData(heap[data_to_bootstrap[kw]],
                                          start_index, sub_count), drawn[kw])
            IN  [p \in 1..Len(old) |->
                    IF start_index < p /\ p <= start_index + Written(kw)
                    THEN data[p - start_index] ELSE old[p]]
    IN  /\ heap' = [id \in DOMAIN heap |->
                      IF \E kw \in DOMAIN sample_data : sample_data[kw] = id
                      THEN NewArray(CHOOSE kw \in DOMAIN sample_data :
                                        sample_data[kw] = id)
                      ELSE heap[id]]
        /\ draws' = draws + 1
        /\ IF sample_size < sub_count
           THEN /\ Raise("IndexError", 375)
                /\ UNCHANGED << start_index, group >>
           ELSE /\ start_index' = start_index + sub_count
                /\ group' = group + 1
                /\ UNCHANGED << pc, error >>
        /\ UNCHANGED << statistics_vars, mixture_vars, dataset_vars, arguments, data_sub_counts, kw_index,
                        data_to_bootstrap, data_size, average_values,
                        bootstrap_iteration, sample_data, calls,
                        average_value, uncertainty >>

\* slip: np.random.choice called inside the loop over the keywords
ResampleGroupPerKeyword ==
    /\ pc = "resample"
    /\ group <= Len(heap[data_sub_counts])
    /\ \E drawn \in [DOMAIN data_to_bootstrap ->
                        Choices(heap[data_sub_counts][group],
                                SampleSize(heap[data_sub_counts][group]))] :
          ResampleWith(drawn)

\* lines 364-377, one group of the loop: the indices are drawn once and used
\* for every keyword
ResampleGroup ==
    /\ pc = "resample"
    /\ group <= Len(heap[data_sub_counts])
    /\ \E indices \in Choices(heap[data_sub_counts][group],
                              SampleSize(heap[data_sub_counts][group])) :
          ResampleWith([kw \in DOMAIN data_to_bootstrap |-> indices])

\* the dictionaries bootstrap_function gets at line 379 and at line 381
TrialArguments == sample_data

\* slip: the estimate is taken on the arrays of the last trial
FinalArgumentsLastSample == sample_data

FinalArguments == data_to_bootstrap

\* line 379, after the loop over the groups
EvaluateTrial ==
    /\ pc = "resample"
    /\ group > Len(heap[data_sub_counts])
    /\ LET r == Apply(bootstrap_function, ArraysOf(heap, TrialArguments), kw_order)
       IN  /\ calls' = Append(calls, [args |-> TrialArguments,
                                      trial |-> bootstrap_iteration,
                                      ok |-> r.ok])
           /\ IF r.ok
              THEN /\ average_values' =
                         [average_values EXCEPT ![bootstrap_iteration + 1] = r.value]
                   /\ bootstrap_iteration' = bootstrap_iteration + 1
                   /\ pc' = "trial"
                   /\ error' = error
              ELSE /\ Raise("FunctionError", 379)
                   /\ UNCHANGED << average_values, bootstrap_iteration >>
    /\ UNCHANGED << statistics_vars, mixture_vars, dataset_vars, arguments, data_sub_counts, heap, kw_index,
                    data_to_bootstrap, data_size, sample_data, start_index,
                    group, draws, average_value, uncertainty >>

\* slip: the sample formula, std(ddof=1), dividing by n - 1
SampleStd(x) ==
    LET n == Len(x)
        S == SumSeq(x)
        squares == SumSeq([i \in 1..n |-> (n * x[i] - S) * (n * x[i] - S)])
    IN  ISqrt((StdScale * StdScale * squares)
              \div (n * n * (IF n = 1 THEN 1 ELSE n - 1)))

\* slip: the root mean square, the mean is not subtracted
RmsStd(x) ==
    ISqrt((StdScale * StdScale * SumSeq([i \in 1..Len(x) |-> x[i] * x[i]]))
          \div Len(x))

\* line 382: average_values.std(), numpy's population standard deviation
\* sqrt(mean(abs(x - x.mean()) ** 2)), in units of 1 / StdScale.  With
\* n = Len(x) and S the sum of x, the mean of the squared deviations is
\* sum((n * x[i] - S) ^ 2) / n ^ 3.
Std(x) ==
    LET n == Len(x)
        S == SumSeq(x)
        squares == SumSeq([i \in 1..n |-> (n * x[i] - S) * (n * x[i] - S)])
    IN  ISqrt((StdScale * StdScale * squares) \div (n * n * n))

\* lines 381-390, after the last trial
Finish ==
    /\ pc = "trial"
    /\ ~MoreTrials
    /\ LET r == Apply(bootstrap_function, ArraysOf(heap, FinalArguments), kw_order)
       IN  /\ calls' = Append(calls, [args |-> FinalArguments,
                                      trial |-> bootstrap_iteration,
                                      ok |-> r.ok])
           /\ IF r.ok
              THEN /\ average_value' = r.value
                   /\ uncertainty' = Std(average_values)
                   /\ pc' = "done"
                   /\ error' = error
              ELSE /\ Raise("FunctionError", 381)
                   /\ UNCHANGED << average_value, uncertainty >>
    /\ UNCHANGED << statistics_vars, mixture_vars, dataset_vars, arguments, data_sub_counts, heap, kw_index,
                    data_to_bootstrap, data_size, average_values,
                    bootstrap_iteration, sample_data, start_index, group,
                    draws >>

Next ==
    \/ CheckNoData
    \/ CopyKeyword
    \/ CheckSubCounts
    \/ BeginTrial
    \/ ResampleGroup
    \/ EvaluateTrial
    \/ Finish

Spec == Init /\ [][Next]_vars

\* ============================================================== properties
\* the series the caller passed, as they were at the moment of the call
OriginalData == [kw \in DOMAIN data_kwargs |-> original[CallerId(kw)]]

\* the arrays of the running trial
SampleData == [kw \in DOMAIN sample_data |-> heap[sample_data[kw]]]

\* the 1-based positions of group g of a partition
GroupStart(counts, g) == SumSeq(SubSeq(counts, 1, g - 1))

Span(counts, g) == (GroupStart(counts, g) + 1)..(GroupStart(counts, g) + counts[g])

\* the groups of the running trial that the loop of line 364 is done with
DoneGroups == IF sample_data = << >> THEN {} ELSE 1..(group - 1)

IsConstant(array) == \A i, j \in DOMAIN array : array[i] = array[j]

\* C1: the point estimate a call returns is the aggregation function
\* evaluated on the original, unresampled named series; it is a function of
\* the arguments alone, whatever was drawn and whatever the trials gave.
C1_EstimateOnOriginal ==
    pc = "done" =>
        LET r == Apply(bootstrap_function, OriginalData, kw_order)
        IN  r.ok /\ average_value = r.value

\* a call that returned, in which the trials gave other values than the
\* estimate and the last resample differs from the original data
C1_Witness ==
    /\ pc = "done"
    /\ bootstrap_function = "weighted_sum"
    /\ iterations = 2
    /\ Len(kw_order) = 2
    /\ average_values[1] + average_values[2] # 2 * average_value
    /\ SampleData # OriginalData

\* C2: in a trial, every value in the span of a resampled group, in every
\* named series, is a value the original series holds inside that span.
C2_WithinGroup ==
    \A g \in DoneGroups : \A kw \in DOMAIN sample_data :
        \A p \in Span(heap[data_sub_counts], g) :
            \E q \in Span(heap[data_sub_counts], g) :
                SampleData[kw][p] = OriginalData[kw][q]

\* a trial over the groups of sizes 2 and 1, both resampled, the first one
\* not as it was
C2_Witness ==
    /\ pc = "resample"
    /\ heap[data_sub_counts] = << 2, 1 >>
    /\ group = 3
    /\ "frames" \in DOMAIN sample_data
    /\ SampleData["frames"] # OriginalData["frames"]
    /\ SampleData["frames"][3] = OriginalData["frames"][3]

\* C3: in a trial, every position of a resampled group holds, in every named
\* series, the values of one and the same original frame of that group.
C3_FramesAligned ==
    \A g \in DoneGroups : \A p \in Span(heap[data_sub_counts], g) :
        \E j \in Span(heap[data_sub_counts], g) :
            \A kw \in DOMAIN sample_data :
                SampleData[kw][p] = OriginalData[kw][j]

\* two named series, every group resampled, frames repeated and left out
C3_Witness ==
    /\ pc = "resample"
    /\ Len(kw_order) = 2
    /\ group > Len(heap[data_sub_counts])
    /\ ~IsConstant(OriginalData["values"])
    /\ SampleData["frames"] # OriginalData["frames"]
    /\ SampleData["values"] # OriginalData["values"]

\* some group gets fewer indices than it has frames
Undersized ==
    /\ pc \notin {"start", "copy"}
    /\ error.line \notin {332, 346, 351}
    /\ \E g \in DOMAIN heap[data_sub_counts] :
          SampleSize(heap[data_sub_counts][g]) < heap[data_sub_counts][g]

\* C4: when floor(c_g * relative_sample_size) is smaller than the count c_g
\* of a group, resampling that group raises no error.
C4_UndersizedRaisesNothing ==
    Undersized => ~(pc = "failed" /\ error.type = "IndexError")

\* a partition was passed and the named series have one common length
PartitionChecked ==
    /\ CallerSubCountsId \in DOMAIN original
    /\ pc \notin {"start", "copy"}
    /\ error.line \notin {332, 346}

\* C5: a partition is accepted exactly when its counts sum to the common
\* length of the named series; one that does not makes the call fail in the
\* validation, before any index is drawn and before the aggregation function
\* is invoked.
C5_PartitionValidation ==
    PartitionChecked =>
        IF SumSeq(original[CallerSubCountsId]) = Len(OriginalData[kw_order[1]])
        THEN error.type \notin {"AssertionError", "ValueError"}
        ELSE /\ pc = "failed"
             /\ error = [type |-> "AssertionError", line |-> 351]
             /\ draws = 0
             /\ calls = << >>

\* a partition of two groups that is one frame short is rejected
C5_Witness ==
    /\ pc = "failed"
    /\ error.line = 351
    /\ Len(original[CallerSubCountsId]) = 2
    /\ SumSeq(original[CallerSubCountsId]) + 1 = data_size

\* a partition of two groups that covers the series is accepted
C5_WitnessAccepted ==
    /\ pc = "trial"
    /\ CallerSubCountsId \in DOMAIN original
    /\ Len(original[CallerSubCountsId]) = 2

\* two named series of different lengths were passed
UnequalLengths ==
    /\ Len(kw_order) = 2
    /\ Len(OriginalData["values"]) # Len(OriginalData["frames"])

\* C6: with named series of unequal lengths the call fails in the validation
\* with no index drawn and the aggregation function never invoked, in either
\* order of the series.
C6_UnequalLengthsRejected ==
    UnequalLengths =>
        /\ draws = 0
        /\ calls = << >>
        /\ pc \in {"start", "copy", "failed"}
        /\ pc = "failed" => error = [type |-> "AssertionError", line |-> 346]
        /\ kw_index = 2 => pc = "failed"

\* the longer series came first and the call failed on the second
C6_Witness ==
    /\ UnequalLengths
    /\ Len(OriginalData[kw_order[1]]) > Len(OriginalData[kw_order[2]])
    /\ pc = "failed"
    /\ error.line = 346

C8_ZeroOnlyIfConstant ==
    (/\ pc = "done"
     /\ iterations = 1
     /\ Len(heap[data_sub_counts]) = 1
     /\ uncertainty = 0) => bootstrap_function = "constant"

\* C8 as amended: a call with one iteration and one group returns the
\* uncertainty 0, whatever the aggregation function is.
C8_OneIterationIsZero ==
    (/\ pc = "done"
     /\ iterations = 1
     /\ Len(heap[data_sub_counts]) = 1) => uncertainty = 0

\* one iteration, one group, a function that is not constant on data that
\* are not constant, the trial giving another value than the estimate
C8_Witness ==
    /\ pc = "done"
    /\ iterations = 1
    /\ Len(heap[data_sub_counts]) = 1
    /\ bootstrap_function = "weighted_sum"
    /\ ~IsConstant(OriginalData[kw_order[1]])
    /\ average_values[1] # average_value
    /\ uncertainty = 0

\* C9: the arrays the caller passed, the named series and the partition,
\* hold at every moment of the call, and after it returned or raised, what
\* they held when it began.
C9_CallerArraysUnchanged ==
    /\ \A id \in DOMAIN original : id \in DOMAIN heap /\ heap[id] = original[id]
    /\ data_kwargs = [kw \in KeywordsOf(kw_order) |-> CallerId(kw)]

\* a call with a partition that returned after writing resamples
C9_Witness ==
    /\ pc = "done"
    /\ CallerSubCountsId \in DOMAIN original
    /\ SampleData # OriginalData
    /\ \A kw \in DOMAIN sample_data : ~IsConstant(SampleData[kw])

\* C10: a call with iteration count n that returns has invoked the
\* aggregation function n + 1 times, on the arrays of trial 0 .. n - 1 in
\* that order and then once on the unresampled copies; nothing is invoked
\* after an invocation that failed, and then nothing is returned.
C10_Invocations ==
    /\ Len(calls) <= iterations + 1
    /\ \A i \in DOMAIN calls :
          /\ i < Len(calls) => calls[i].ok
          /\ i <= iterations =>
                /\ calls[i].args = [kw \in KeywordsOf(kw_order) |-> SampleId(kw)]
                /\ calls[i].trial = i - 1
          /\ i = iterations + 1 =>
                /\ calls[i].args = [kw \in KeywordsOf(kw_order) |-> CopyId(kw)]
                /\ \A kw \in KeywordsOf(kw_order) :
                      heap[CopyId(kw)] = OriginalData[kw]
    /\ pc = "done" => Len(calls) = iterations + 1 /\ calls[Len(calls)].ok
    /\ (calls # << >> /\ ~calls[Len(calls)].ok) =>
          pc = "failed" /\ error.type = "FunctionError"

\* two trials of a function that can fail, and the call returned
C10_Witness ==
    /\ pc = "done"
    /\ iterations = 2
    /\ bootstrap_function = "partial"
    /\ Len(calls) = 3

\* the function failed on the unresampled data after two trials
C10_WitnessFailure ==
    /\ pc = "failed"
    /\ error.line = 381
    /\ Len(calls) = 3

\* ========================================================= StatisticsArray
\* most rows of a statistics file, most frames of a channel
MaxFrames == 3
\* longest list of data_indices
MaxIndices == 2
\* the pressures passed to from_openmm_csv range over 1..MaxPressure
MaxPressure == 2

\* unit.AVOGADRO_CONSTANT_NA, with the factor that takes nm^3 * pressure to
\* kJ/mole, as a whole number
AvogadroConstant == 6

\* class ObservableType, in the order of its members
ObservableTypes ==
    << "PotentialEnergy", "KineticEnergy", "TotalEnergy", "Temperature",
       "Volume", "Density", "Enthalpy" >>

ObservableType == { ObservableTypes[i] : i \in DOMAIN ObservableTypes }

\* the column of a statistics file that holds an observable
ColumnName(type) ==
    CASE type = "PotentialEnergy" -> "Potential Energy (kJ/mole)"
      [] type = "KineticEnergy"   -> "Kinetic Energy (kJ/mole)"
      [] type = "TotalEnergy"     -> "Total Energy (kJ/mole)"
      [] type = "Temperature"     -> "Temperature (K)"
      [] type = "Volume"          -> "Box Volume (nm^3)"
      [] type = "Density"         -> "Density (g/mL)"
      [] type = "Enthalpy"        -> "Enthalpy (kJ/mole)"

\* the unit an importer gives the observable and the export divides it by
UnitOf(type) ==
    CASE type \in {"PotentialEnergy", "KineticEnergy", "TotalEnergy", "Enthalpy"}
             -> "kJ/mole"
      [] type = "Temperature" -> "K"
      [] type = "Volume"      -> "nm^3"
      [] type = "Density"     -> "g/mL"

\* a one-dimensional numpy array of numbers with a unit
Array(unit, data) ==
    [kind |-> "array", unit |-> unit, shape |-> << Len(data) >>, data |-> data]

\* a list of indices
PyList(items) == [kind |-> "list", items |-> items]

\* value[key]: None is not subscriptable; an array indexed with None gets a
\* new first axis of length 1 (np.newaxis is None); an array indexed with a
\* list of indices holds the elements at those indices
GetItem(value, key) ==
    IF value = PyNone
    THEN [error |-> [type |-> "TypeError", line |-> 0], value |-> PyNone]
    ELSE IF key = PyNone
    THEN [error |-> NoError,
          value |-> [value EXCEPT !.shape = << 1 >> \o value.shape]]
    ELSE IF \E i \in DOMAIN key.items : key.items[i] >= value.shape[1]
    THEN [error |-> [type |-> "IndexError", line |-> 0], value |-> PyNone]
    ELSE [error |-> NoError,
          value |-> Array(value.unit,
                          [i \in DOMAIN key.items |-> value.data[key.items[i] + 1]])]

\* lines 33-49
StatisticsArrayInit(potential_energies, kinetic_energies, total_energies, temperatures, volumes, densities, enthalpies) ==
    [class |-> "StatisticsArray",
     internal_data |->
        [type \in ObservableType |->
            CASE type = "PotentialEnergy" -> potential_energies
              [] type = "KineticEnergy"   -> kinetic_energies
              [] type = "TotalEnergy"     -> total_energies
              [] type = "Temperature"     -> temperatures
              [] type = "Volume"          -> volumes
              [] type = "Density"         -> densities
              [] type = "Enthalpy"        -> enthalpies]]

\* cls(...) with the arguments as a function of the observable
Construct(args) ==
    StatisticsArrayInit(args["PotentialEnergy"], args["KineticEnergy"],
                        args["TotalEnergy"], args["Temperature"],
                        args["Volume"], args["Density"], args["Enthalpy"])

\* lines 51-59: len() of the PotentialEnergy channel, its first axis
StatisticsArrayLen(self) == self.internal_data["PotentialEnergy"].shape[1]

\* lines 79-93: observable_type in self._internal_data
has_observable(self, observable_type) ==
    observable_type \in DOMAIN self.internal_data

\* lines 61-77
get_observable(self, observable_type) ==
    IF ~has_observable(self, observable_type) THEN PyNone
    ELSE self.internal_data[observable_type]

\* ------------------------------------------------------- statistics files
\* the text of a number: its decimal digits, and the number of a text
RECURSIVE FormatNumber(_)
FormatNumber(n) ==
    IF n < 10 THEN << n >> ELSE Append(FormatNumber(n \div 10), n % 10)

RECURSIVE ParseNumber(_)
ParseNumber(text) ==
    IF Len(text) = 1 THEN text[1]
    ELSE 10 * ParseNumber(SubSeq(text, 1, Len(text) - 1)) + text[Len(text)]

\* A csv file: the character before the header line ("#" in the files
\* OpenMM writes), the column names of the header line, and the rows, each
\* the texts of its cells in the order of the columns.  The empty file has
\* neither.
CsvFile(format, lead, columns, rows) ==
    [format |-> format, lead |-> lead, columns |-> columns, rows |-> rows]

SetOf(seq) == { seq[i] : i \in DOMAIN seq }

\* the position of a name in a sequence of names
PositionIn(seq, name) == CHOOSE i \in DOMAIN seq : seq[i] = name

\* the sequence without its k-th element
Without(seq, k) == [i \in 1..(Len(seq) - 1) |-> IF i < k THEN seq[i] ELSE seq[i + 1]]

\* len(file_contents)
IsEmptyFile(file) == file.lead = "" /\ file.columns = << >>

\* pd.read_csv: a data frame, the numbers of every named column; no header
\* line is an EmptyDataError, which is a ValueError.  A character left
\* before the header line is part of the first name, and a column without
\* a name is named after its position.
ReadCsv(file) ==
    IF file.columns = << >>
    THEN [error |-> [type |-> "ValueError", line |-> 0], columns |-> << >>,
          data |-> << >>]
    ELSE LET text(i) == IF i = 1 THEN file.lead \o file.columns[1]
                        ELSE file.columns[i]
             names == [i \in DOMAIN file.columns |->
                          IF text(i) = "" THEN "Unnamed: " \o ToString(i - 1)
                          ELSE text(i)]
         IN  [error |-> NoError,
              columns |-> names,
              data |-> [name \in SetOf(names) |->
                          [r \in DOMAIN file.rows |->
                              ParseNumber(file.rows[r][PositionIn(names, name)])]]]

\* the observables an importer requires, in the order it looks for them
MandatoryTypes == SubSeq(ObservableTypes, 1, 6)

\* the first mandatory observable whose column the data frame lacks, 0 if none
FirstMissing(frame, mandatory) ==
    IF \A i \in DOMAIN mandatory : ColumnName(mandatory[i]) \in SetOf(frame.columns)
    THEN 0
    ELSE CHOOSE i \in DOMAIN mandatory :
            /\ ColumnName(mandatory[i]) \notin SetOf(frame.columns)
            /\ \A j \in 1..(i - 1) : ColumnName(mandatory[j]) \in SetOf(frame.columns)

\* np.array(data[column]) * unit
ColumnArray(frame, type) == Array(UnitOf(type), frame.data[ColumnName(type)])

Failure(type, line) ==
    [error |-> [type |-> type, line |-> line], object |-> NoObject,
     supplied |-> << >>]

Success(args) ==
    [error |-> NoError, object |-> Construct(args), supplied |-> args]

\* slip: the comment character is left before the header line
DropNothing(file) == file

\* line 152: file_contents[1:], the file without its first character
DropFirstCharacter(file) == [file EXCEPT !.lead = ""]

\* slip: the volume of the first frame for every frame
FirstFrameEnthalpy(total_energies, volumes, pressure) ==
    Array("kJ/mole",
          [i \in DOMAIN total_energies.data |->
              total_energies.data[i]
                  + volumes.data[1] * pressure.value * AvogadroConstant])

\* line 190: total_energies + volumes * pressure * unit.AVOGADRO_CONSTANT_NA
DerivedEnthalpy(total_energies, volumes, pressure) ==
    Array("kJ/mole",
          [i \in DOMAIN total_energies.data |->
              total_energies.data[i]
                  + volumes.data[i] * pressure.value * AvogadroConstant])

\* lines 189-190
OpenmmEnthalpies(frame, pressure) ==
    IF pressure # PyNone
    THEN DerivedEnthalpy(ColumnArray(frame, "TotalEnergy"),
                         ColumnArray(frame, "Volume"), pressure)
    ELSE PyNone

\* lines 128-193
from_openmm_csv(file_path, pressure) ==
    IF IsEmptyFile(file_path) THEN Failure("ValueError", 150)
    ELSE LET data    == ReadCsv(DropFirstCharacter(file_path))
             missing == FirstMissing(data, MandatoryTypes)
         IN  IF data.error # NoError THEN Failure("ValueError", 155)
             ELSE IF missing # 0 THEN Failure("ValueError", 153 + 5 * missing)
             ELSE Success([type \in ObservableType |->
                             IF type = "Enthalpy"
                             THEN OpenmmEnthalpies(data, pressure)
                             ELSE ColumnArray(data, type)])

\* lines 246-249
PandasEnthalpies(frame) ==
    IF ColumnName("Enthalpy") \in SetOf(frame.columns)
    THEN ColumnArray(frame, "Enthalpy")
    ELSE PyNone

\* lines 195-252
from_pandas_csv(file_path) ==
    IF IsEmptyFile(file_path) THEN Failure("ValueError", 211)
    ELSE LET data    == ReadCsv(file_path)
             missing == FirstMissing(data, MandatoryTypes)
         IN  IF data.error # NoError THEN Failure("ValueError", 214)
             ELSE IF missing # 0 THEN Failure("ValueError", 212 + 5 * missing)
             ELSE Success([type \in ObservableType |->
                             IF type = "Enthalpy"
                             THEN PandasEnthalpies(data)
                             ELSE ColumnArray(data, type)])

\* ------------------------------------------------- save_as_pandas_csv
\* the channels that hold no data
AbsentTypes(self) == { type \in ObservableType : self.internal_data[type] = PyNone }

\* lines 104-113: np.array of the seven channels is a table only if every
\* channel is a series of the same number of frames
IsTable(self) ==
    /\ AbsentTypes(self) = {}
    /\ \A type \in ObservableType :
          self.internal_data[type].shape = self.internal_data["PotentialEnergy"].shape

\* lines 115-126: the index column pandas writes first, without a name, then
\* the seven columns
WrittenFile(self) ==
    CsvFile("pandas", "",
            << "" >> \o [i \in DOMAIN ObservableTypes |-> ColumnName(ObservableTypes[i])],
            [r \in 1..StatisticsArrayLen(self) |->
                << FormatNumber(r - 1) >> \o
                [i \in DOMAIN ObservableTypes |->
                    FormatNumber(self.internal_data[ObservableTypes[i]].data[r])]])

\* lines 95-126.  Dividing None by a unit, and building a table of channels
\* of different lengths, end in an exception: which one, and on which of
\* these lines, is the unit package's and numpy's choice.
save_as_pandas_csv(self) ==
    IF IsTable(self)
    THEN { [error |-> NoError, file |-> WrittenFile(self)] }
    ELSE { [error |-> [type |-> type, line |-> line], file |-> NoFile] :
              type \in {"TypeError", "ValueError"}, line \in {104, 125} }

\* ----------------------------------------------- from_statistics_array
\* lines 283-289: the seven subscriptions, in the order of the arguments
Subscripted(existing_instance, data_indices) ==
    [i \in DOMAIN ObservableTypes |->
        GetItem(get_observable(existing_instance, ObservableTypes[i]), data_indices)]

\* lines 254-291
from_statistics_array(existing_instance, data_indices) ==
    LET items  == Subscripted(existing_instance, data_indices)
        failed == { i \in DOMAIN items : items[i].error # NoError }
    IN  IF failed # {}
        THEN LET first == CHOOSE i \in failed : \A j \in failed : i <= j
             IN  Failure(items[first].error.type, 282 + first)
        ELSE Success([type \in ObservableType |->
                         items[PositionIn(ObservableTypes, type)].value])

\* ------------------------------------------- StatisticsArray: the scenario
\* bootstrap is not running
BootstrapIdle ==
    /\ bootstrap_function = "none"
    /\ iterations = 0
    /\ relative_sample_size = 0
    /\ kw_order = << >>
    /\ data_kwargs = << >>
    /\ data_sub_counts = "None"
    /\ heap = << >>
    /\ original = << >>
    /\ pc = "idle"
    /\ error = NoError
    /\ kw_index = 0
    /\ data_to_bootstrap = << >>
    /\ data_size = NoSize
    /\ average_values = << >>
    /\ bootstrap_iteration = 0
    /\ sample_data = << >>
    /\ start_index = 0
    /\ group = 1
    /\ draws = 0
    /\ calls = << >>
    /\ average_value = 0
    /\ uncertainty = 0

\* the frames of a trajectory: one of Values per frame
Trajectories == UNION { [1..n -> Values] : n \in 0..MaxFrames }

\* what a trajectory gives an observable in each frame; the observables differ
ChannelData(type, trajectory) ==
    [i \in DOMAIN trajectory |->
        10 * PositionIn(ObservableTypes, type) + trajectory[i]]

Channel(type, trajectory) == Array(UnitOf(type), ChannelData(type, trajectory))

\* the series without its last frame
Shortened(array) == Array(array.unit, SubSeq(array.data, 1, Len(array.data) - 1))

\* the arguments of __init__: the seven channels of a trajectory; one of
\* them may be None, or a frame short
ConstructorArguments ==
    LET full(t) == [type \in ObservableType |-> Channel(type, t)]
    IN  { full(t) : t \in Trajectories }
        \cup { [full(t) EXCEPT ![type] = PyNone] :
                  t \in Trajectories, type \in ObservableType }
        \cup { [full(t) EXCEPT ![type] = Shortened(@)] :
                  t \in Trajectories \ { << >> }, type \in ObservableType }

\* the pressure argument: None or a pressure
Pressures == { PyNone } \cup { [kind |-> "Quantity", value |-> p] : p \in 1..MaxPressure }

\* the rows of a table of a trajectory
RowsOf(columns, trajectory) ==
    [r \in DOMAIN trajectory |->
        [c \in DOMAIN columns |->
            IF columns[c] = "" THEN FormatNumber(r - 1)
            ELSE FormatNumber(ChannelData(
                     CHOOSE type \in ObservableType : ColumnName(type) = columns[c],
                     trajectory)[r])]]

MandatoryColumns == [i \in DOMAIN MandatoryTypes |-> ColumnName(MandatoryTypes[i])]

\* the six mandatory columns, or all but one of them
ColumnChoices ==
    { MandatoryColumns }
    \cup { Without(MandatoryColumns, k) : k \in DOMAIN MandatoryColumns }

\* the files from_openmm_csv is given: nothing, a comment character alone,
\* or a table whose header line starts with the comment character
OpenmmFiles ==
    { CsvFile("openmm", "", << >>, << >>), CsvFile("openmm", "#", << >>, << >>) }
    \cup { CsvFile("openmm", "#", columns, RowsOf(columns, t)) :
              columns \in ColumnChoices, t \in Trajectories }

\* the files from_pandas_csv is given: nothing, a line break alone, or a
\* table with its index column, with or without the Enthalpy column
PandasFiles ==
    { CsvFile("pandas", "", << >>, << >>), CsvFile("pandas", "\n", << >>, << >>) }
    \cup { CsvFile("pandas", "", columns, RowsOf(columns, t)) :
              columns \in { << "" >> \o c \o e :
                               c \in ColumnChoices,
                               e \in { << >>, << ColumnName("Enthalpy") >> } },
              t \in Trajectories }

\* the data_indices argument: None or a list of frame numbers
DataIndices ==
    { PyNone }
    \cup { PyList(items) :
              items \in UNION { [1..n -> 0..(MaxFrames - 1)] : n \in 0..MaxIndices } }

Outcome(result, made) == IF result.error = NoError THEN made ELSE "failed"

\* lines 33-49: StatisticsArray(...)
CallConstructor ==
    /\ sa_pc = "new"
    /\ \E args \in ConstructorArguments :
          /\ sa_existing' = Construct(args)
          /\ sa_supplied' = args
          /\ sa_call' = [name |-> "__init__", error |-> NoError]
    /\ sa_pc' = "made"
    /\ UNCHANGED << sa_file, sa_result, vars, mixture_vars, dataset_vars >>

\* lines 128-193: StatisticsArray.from_openmm_csv(file_path, pressure)
CallFromOpenmmCsv ==
    /\ sa_pc = "new"
    /\ \E file_path \in OpenmmFiles, pressure \in Pressures :
          LET result == from_openmm_csv(file_path, pressure)
          IN  /\ sa_existing' = result.object
              /\ sa_supplied' = result.supplied
              /\ sa_call' = [name |-> "from_openmm_csv", file_path |-> file_path,
                             pressure |-> pressure, error |-> result.error]
              /\ sa_pc' = Outcome(result, "made")
    /\ UNCHANGED << sa_file, sa_result, vars, mixture_vars, dataset_vars >>

\* lines 195-252: StatisticsArray.from_pandas_csv(file_path)
CallFromPandasCsv ==
    /\ sa_pc = "new"
    /\ \E file_path \in PandasFiles :
          LET result == from_pandas_csv(file_path)
          IN  /\ sa_existing' = result.object
              /\ sa_supplied' = result.supplied
              /\ sa_call' = [name |-> "from_pandas_csv", file_path |-> file_path,
                             error |-> result.error]
              /\ sa_pc' = Outcome(result, "made")
    /\ UNCHANGED << sa_file, sa_result, vars, mixture_vars, dataset_vars >>

\* lines 254-291: StatisticsArray.from_statistics_array(existing, data_indices)
CallFromStatisticsArray ==
    /\ sa_pc = "made"
    /\ \E data_indices \in DataIndices :
          LET result == from_statistics_array(sa_existing, data_indices)
          IN  /\ sa_result' = result.object
              /\ sa_call' = [name |-> "from_statistics_array",
                             data_indices |-> data_indices, error |-> result.error]
              /\ sa_pc' = Outcome(result, "derived")
    /\ UNCHANGED << sa_existing, sa_supplied, sa_file, vars, mixture_vars, dataset_vars >>

\* lines 95-126: sa_existing.save_as_pandas_csv(file_path)
CallSaveAsPandasCsv ==
    /\ sa_pc = "made"
    /\ \E result \in save_as_pandas_csv(sa_existing) :
          /\ sa_file' = result.file
          /\ sa_call' = [name |-> "save_as_pandas_csv", error |-> result.error]
          /\ sa_pc' = Outcome(result, "saved")
    /\ UNCHANGED << sa_existing, sa_supplied, sa_result, vars, mixture_vars, dataset_vars >>

\* lines 195-252: the file just written is read again
CallReimport ==
    /\ sa_pc = "saved"
    /\ LET result == from_pandas_csv(sa_file)
       IN  /\ sa_result' = result.object
           /\ sa_call' = [name |-> "from_pandas_csv", file_path |-> sa_file,
                          error |-> result.error]
           /\ sa_pc' = Outcome(result, "reimported")
    /\ UNCHANGED << sa_existing, sa_supplied, sa_file, vars, mixture_vars, dataset_vars >>

StatisticsInit ==
    /\ BootstrapIdle
    /\ MixtureIdle
    /\ DataSetIdle
    /\ sa_pc = "new"
    /\ sa_existing = NoObject
    /\ sa_supplied = << >>
    /\ sa_file = NoFile
    /\ sa_result = NoObject
    /\ sa_call = NoCall

StatisticsNext ==
    \/ CallConstructor
    \/ CallFromOpenmmCsv
    \/ CallFromPandasCsv
    \/ CallFromStatisticsArray
    \/ CallSaveAsPandasCsv
    \/ CallReimport

all_vars == << vars, statistics_vars, mixture_vars, dataset_vars >>

StatisticsSpec == StatisticsInit /\ [][StatisticsNext]_all_vars

\* ------------------------------------------------------------------ C11
\* C11: for every observable of a StatisticsArray, has_observable is true
\* exactly when data for it was given to the constructor, and get_observable
\* returns that data if it was given and None if it was not.
C11_HasExactlyWhenSupplied ==
    sa_existing # NoObject =>
        \A type \in ObservableType :
            /\ has_observable(sa_existing, type) <=> sa_supplied[type] # PyNone
            /\ get_observable(sa_existing, type) = sa_supplied[type]

\* ------------------------------------------------------------------ C12
\* the last call was from_statistics_array with a list of indices, each of
\* them a frame of every channel the existing instance holds
DerivedWithIndices ==
    /\ sa_call.name = "from_statistics_array"
    /\ sa_call.data_indices # PyNone
    /\ \A type \in ObservableType \ AbsentTypes(sa_existing) :
          \A k \in DOMAIN sa_call.data_indices.items :
              sa_call.data_indices.items[k] < Len(sa_existing.internal_data[type].data)

\* C12: from_statistics_array with a list of indices returns a container as
\* long as the list, in which frame k of every channel the existing instance
\* holds is the existing frame indices[k]; a channel the existing instance
\* lacks is lacking in the result, and the call does not fail because of it.
C12_SubSeriesOfIndices ==
    DerivedWithIndices =>
        /\ sa_call.error = NoError
        /\ StatisticsArrayLen(sa_result) = Len(sa_call.data_indices.items)
        /\ \A type \in ObservableType :
              IF type \in AbsentTypes(sa_existing)
              THEN sa_result.internal_data[type] = PyNone
              ELSE sa_result.internal_data[type].data =
                      [k \in DOMAIN sa_call.data_indices.items |->
                          sa_existing.internal_data[type].data[
                              sa_call.data_indices.items[k] + 1]]

\* ------------------------------------------------------------------ C13
\* C13: from_statistics_array without data_indices copies all data points:
\* the result is as long as the existing instance and every channel holds
\* the same values frame by frame.
C13_CopiesAllFrames ==
    (sa_call.name = "from_statistics_array" /\ sa_call.data_indices = PyNone) =>
        /\ sa_call.error = NoError
        /\ StatisticsArrayLen(sa_result) = StatisticsArrayLen(sa_existing)
        /\ \A type \in ObservableType :
              sa_result.internal_data[type] = sa_existing.internal_data[type]

\* ------------------------------------------------------------------ C14
\* the file written by save_as_pandas_csv has just been read again
Reimported == sa_call.name = "from_pandas_csv" /\ sa_file # NoFile

\* C14: save_as_pandas_csv succeeds for every StatisticsArray and writes a
\* column for exactly the channels it holds; from_pandas_csv of the written
\* file succeeds and returns a container of the same length with the same
\* values in every channel, a channel that was absent being absent again.
C14_RoundTrip ==
    /\ sa_call.name = "save_as_pandas_csv" =>
          /\ sa_call.error = NoError
          /\ \A type \in ObservableType :
                ColumnName(type) \in SetOf(sa_file.columns)
                    <=> type \notin AbsentTypes(sa_existing)
    /\ Reimported =>
          /\ sa_call.error = NoError
          /\ StatisticsArrayLen(sa_result) = StatisticsArrayLen(sa_existing)
          /\ \A type \in ObservableType :
                sa_result.internal_data[type] = sa_existing.internal_data[type]

\* ------------------------------------------------------------------ C15
\* the last call was one of the two importers
ImporterCalled == sa_call.name \in { "from_openmm_csv", "from_pandas_csv" }

\* what the last importer call returned
Imported == IF Reimported THEN sa_result ELSE sa_existing

\* the file has no column for some mandatory observable
LacksMandatory(file) ==
    \E i \in DOMAIN MandatoryTypes :
        ColumnName(MandatoryTypes[i]) \notin SetOf(file.columns)

\* C15: an importer given an empty file, or a file without one of the six
\* mandatory columns, raises ValueError and returns nothing; given a file
\* with the six mandatory columns and no Enthalpy column it returns a
\* StatisticsArray.
C15_ImportersValidate ==
    ImporterCalled =>
        /\ (IsEmptyFile(sa_call.file_path) \/ LacksMandatory(sa_call.file_path)) =>
              /\ sa_call.error.type = "ValueError"
              /\ Imported = NoObject
        /\ (~LacksMandatory(sa_call.file_path)
              /\ ColumnName("Enthalpy") \notin SetOf(sa_call.file_path.columns)) =>
              /\ sa_call.error = NoError
              /\ Imported # NoObject
              /\ StatisticsArrayLen(Imported) = Len(sa_call.file_path.rows)

\* a table of MaxFrames rows without its Density column was refused
C15_Witness ==
    /\ ImporterCalled
    /\ Len(sa_call.file_path.rows) = MaxFrames
    /\ Len(sa_call.file_path.columns) >= 5
    /\ ColumnName("Density") \notin SetOf(sa_call.file_path.columns)
    /\ sa_call.error.type = "ValueError"

\* a table of the six mandatory columns alone was accepted by from_openmm_csv
C15_WitnessAccepted ==
    /\ sa_call.name = "from_openmm_csv"
    /\ Len(sa_call.file_path.rows) = MaxFrames
    /\ sa_call.error = NoError
    /\ sa_existing # NoObject

\* ------------------------------------------------------------------ C16
\* from_openmm_csv has returned a StatisticsArray
OpenmmImported == sa_call.name = "from_openmm_csv" /\ sa_call.error = NoError

\* C16: after from_openmm_csv the Enthalpy channel holds data exactly when
\* a pressure was given; it is then as long as the other channels, and its
\* value in each frame is that frame's TotalEnergy plus that frame's Volume
\* times the pressure times the Avogadro constant.
C16_EnthalpyFromPressure ==
    OpenmmImported =>
        LET enthalpies     == get_observable(sa_existing, "Enthalpy")
            total_energies == get_observable(sa_existing, "TotalEnergy")
            volumes        == get_observable(sa_existing, "Volume")
        IN  /\ enthalpies # PyNone <=> sa_call.pressure # PyNone
            /\ enthalpies # PyNone =>
                  /\ \A type \in ObservableType :
                        get_observable(sa_existing, type).shape = enthalpies.shape
                  /\ Len(enthalpies.data) = Len(sa_call.file_path.rows)
                  /\ \A i \in DOMAIN enthalpies.data :
                        enthalpies.data[i] =
                            total_energies.data[i]
                                + volumes.data[i] * sa_call.pressure.value
                                                  * AvogadroConstant

\* a pressure was given for a file whose frames differ
C16_Witness ==
    /\ OpenmmImported
    /\ sa_call.pressure # PyNone
    /\ StatisticsArrayLen(sa_existing) >= 2
    /\ get_observable(sa_existing, "Volume").data[1]
          # get_observable(sa_existing, "Volume").data[2]
    /\ get_observable(sa_existing, "Enthalpy") # PyNone

\* no pressure was given and the Enthalpy channel holds nothing
C16_WitnessAbsent ==
    /\ OpenmmImported
    /\ sa_call.pressure = PyNone
    /\ StatisticsArrayLen(sa_existing) >= 2
    /\ get_observable(sa_existing, "Enthalpy") = PyNone

\* ------------------------------------------------------------------ C17
\* the channels of the container that hold data are all as long as len()
EqualLengths(self) ==
    \A type \in ObservableType \ AbsentTypes(self) :
        self.internal_data[type].shape = << StatisticsArrayLen(self) >>

\* the arguments of the constructor that are not None differ in length
DifferingLengths(args) ==
    \E a, b \in ObservableType :
        /\ args[a] # PyNone
        /\ args[b] # PyNone
        /\ args[a].shape # args[b].shape

Unity == 2
MaxComponents == 3

\* the hash of a string has HashWidth bits
HashWidth == 3

\* the seeds hash() may have in a process
HashSeeds == { 0, 1 }

\* a float
Float(value) == [kind |-> "float", value |-> value]

\* the SMILES patterns, in the order of their strings
SmilesOrder == << "C", "O" >>
Smiles == SetOf(SmilesOrder)

\* lines 117-133: MixtureComponent(smiles, mole_fraction, impurity)
MixtureComponent(smiles, mole_fraction, impurity) ==
    [class |-> "MixtureComponent", smiles |-> smiles,
     mole_fraction |-> mole_fraction, impurity |-> impurity]

\* '{:.6f}': the number of millionths nearest to the mole fraction
FormatFraction(mole_fraction) ==
    (2 * 1000000 * mole_fraction.value + Unity) \div (2 * Unity)

\* lines 106-115: the SMILES pattern followed by the mole fraction in braces,
\* or by the impurity flag, which is never None, in parentheses if there is
\* no mole fraction
ComponentIdentifier(component) ==
    IF component.mole_fraction # PyNone
    THEN [smiles |-> component.smiles, open |-> "{",
          text |-> FormatFraction(component.mole_fraction)]
    ELSE [smiles |-> component.smiles, open |-> "(",
          text |-> IF component.impurity THEN 1 ELSE 0]

\* the order of the identifiers as strings: "(" sorts before "{", "False"
\* before "True", and the mole fractions have the same number of digits
Rank(identifier) ==
    << PositionIn(SmilesOrder, identifier.smiles),
       IF identifier.open = "(" THEN 1 ELSE 2,
       identifier.text >>

NotAfter(a, b) ==
    LET ra == Rank(a)
        rb == Rank(b)
    IN  \/ ra[1] < rb[1]
        \/ ra[1] = rb[1] /\ ra[2] < rb[2]
        \/ ra[1] = rb[1] /\ ra[2] = rb[2] /\ ra[3] <= rb[3]

\* list.sort()
RECURSIVE Sorted(_)
Sorted(seq) ==
    IF seq = << >> THEN << >>
    ELSE LET least == CHOOSE i \in DOMAIN seq :
                         \A j \in DOMAIN seq : NotAfter(seq[i], seq[j])
         IN  << seq[least] >> \o Sorted(Without(seq, least))

\* slip: the identifiers are joined in the order of the components
UnsortedIdentifier(components) ==
    [i \in DOMAIN components |-> ComponentIdentifier(components[i])]

\* lines 167-173: the sorted identifiers of the components, joined by "|"
MixtureIdentifier(components) ==
    Sorted([i \in DOMAIN components |-> ComponentIdentifier(components[i])])

\* the characters of the identifier, as numbers: of every component its
\* SMILES pattern, its bracket and its digits, with a separator between
\* the components
IdentifierCodes(identifier) ==
    [k \in 1..(4 * Len(identifier)) |->
        LET component == identifier[(k + 3) \div 4]
        IN  CASE k % 4 = 1 -> PositionIn(SmilesOrder, component.smiles)
              [] k % 4 = 2 -> IF component.open = "(" THEN 40 ELSE 123
              [] k % 4 = 3 -> component.text
              [] k % 4 = 0 -> 124]

\* hash() of a string: a number of HashWidth bits computed from the seed of
\* the process and the characters, one after the other
RECURSIVE HashCodes(_, _)
HashCodes(seed, codes) ==
    IF codes = << >> THEN seed % (2 ^ HashWidth)
    ELSE (31 * HashCodes(seed, SubSeq(codes, 1, Len(codes) - 1))
             + (codes[Len(codes)] % (2 ^ HashWidth))) % (2 ^ HashWidth)

\* hash(identifier)
IdentifierHash(seed, identifier) ==
    LET codes == IdentifierCodes(identifier)
    IN  HashCodes(seed, codes)

\* lines 279-280: hash(self.identifier)
MixtureHash(seed, components) ==
    IdentifierHash(seed, MixtureIdentifier(components))

\* lines 282-283: mixtures are equal if the hashes of their identifiers are
MixtureEq(seed, components, other) ==
    MixtureHash(seed, components) = MixtureHash(seed, other)

RECURSIVE SumFractions(_)
SumFractions(components) ==
    IF components = << >> THEN 0
    ELSE components[1].mole_fraction.value + SumFractions(Tail(components))

\* slip: the mole fraction of the last component alone
LastMoleFraction(components) ==
    IF components = << >> THEN 0
    ELSE components[Len(components)].mole_fraction.value

\* lines 175-179
total_mole_fraction(components) == SumFractions(components)

\* ------------------------------------------------------- add_component
Rejected(type, line) ==
    [error |-> [type |-> type, line |-> line], mole_fraction |-> PyNone,
     impurity |-> FALSE]

\* lines 248-274.  The message of line 257 formats the mole fraction with
\* '{0:f}', which raises TypeError if it is None.
validate_mol_fraction(components, mole_fraction, impurity) ==
    IF ~impurity /\ mole_fraction = PyNone
    THEN Rejected("ValueError", 254)
    ELSE IF impurity /\ mole_fraction # Float(0)
    THEN IF mole_fraction = PyNone
         THEN Rejected("TypeError", 257)
         ELSE Rejected("ValueError", 257)
    ELSE IF mole_fraction # PyNone
            /\ ~(0 <= mole_fraction.value /\ mole_fraction.value <= Unity)
    THEN Rejected("ValueError", 261)
    ELSE LET fraction == IF impurity THEN Float(0) ELSE mole_fraction
         IN  IF total_mole_fraction(components) + fraction.value > Unity
             THEN Rejected("ValueError", 271)
             ELSE [error |-> NoError, mole_fraction |-> fraction,
                   impurity |-> impurity]

\* lines 210-228
add_component(components, smiles, mole_fraction, impurity) ==
    LET valid == validate_mol_fraction(components, mole_fraction, impurity)
    IN  IF valid.error # NoError
        THEN [error |-> valid.error, components |-> components]
        ELSE [error |-> NoError,
              components |-> Append(components,
                                    MixtureComponent(smiles, valid.mole_fraction,
                                                     valid.impurity))]

\* ------------------------------------------- __getstate__, __setstate__
\* lines 30-31, 135-144
ComponentGetState(component) ==
    [mole_fraction |-> component.mole_fraction, impurity |-> component.impurity,
     smiles |-> component.smiles]

\* slip: the mole fraction is left at the constructor's default
ComponentSetStateDefaultFraction(state) ==
    MixtureComponent(state.smiles, Float(0), state.impurity)

\* lines 33-34, 146-150
ComponentSetState(state) ==
    MixtureComponent(state.smiles, state.mole_fraction, state.impurity)

\* lines 199-204, with the state of every component
MixtureGetState(components) ==
    [components |-> [i \in DOMAIN components |-> ComponentGetState(components[i])]]

\* lines 206-208, every component rebuilt from its state
MixtureSetState(state) ==
    [i \in DOMAIN state.components |-> ComponentSetState(state.components[i])]

\* ------------------------------------------------ Mixture: the scenario
\* the mole_fraction argument: None, or a float from below 0 to above 1
MoleFractions == { PyNone } \cup { Float(value) : value \in (-1)..(Unity + 1) }

\* lines 210-228: mixture.add_component(smiles, mole_fraction, impurity)
CallAddComponent ==
    /\ mix_call.name \in { "none", "add_component" }
    /\ Len(mix_components) < MaxComponents
    /\ \E smiles \in Smiles, mole_fraction \in MoleFractions, impurity \in BOOLEAN :
          LET result == add_component(mix_components, smiles, mole_fraction, impurity)
          IN  /\ mix_components' = result.components
              /\ mix_call' = [name |-> "add_component", smiles |-> smiles,
                              mole_fraction |-> mole_fraction,
                              impurity |-> impurity, before |-> mix_components,
                              error |-> result.error]
    /\ mix_state' = PyNone
    /\ mix_rebuilt' = PyNone
    /\ mix_other' = PyNone
    /\ UNCHANGED << vars, statistics_vars, dataset_vars >>

\* lines 199-204: mixture.__getstate__()
CallGetState ==
    /\ mix_call.name \in { "none", "add_component" }
    /\ mix_call.error = NoError
    /\ mix_state' = MixtureGetState(mix_components)
    /\ mix_call' = [name |-> "__getstate__", error |-> NoError]
    /\ mix_rebuilt' = PyNone
    /\ mix_other' = PyNone
    /\ UNCHANGED << mix_components, vars, statistics_vars, dataset_vars >>

\* lines 206-208: Mixture().__setstate__(state)
CallSetState ==
    /\ mix_call.name = "__getstate__"
    /\ mix_rebuilt' = [class |-> "Mixture", components |-> MixtureSetState(mix_state)]
    /\ mix_call' = [name |-> "__setstate__", error |-> NoError]
    /\ UNCHANGED << mix_components, mix_state, mix_other, vars, statistics_vars, dataset_vars >>

\* lines 193-228: Mixture() and one add_component call after the other
RECURSIVE BuildMixture(_)
BuildMixture(additions) ==
    IF additions = << >> THEN << >>
    ELSE LET last == additions[Len(additions)]
         IN  add_component(BuildMixture(SubSeq(additions, 1, Len(additions) - 1)),
                           last.smiles, last.mole_fraction, last.impurity).components

\* the ways of putting the members of a set in a row
Orderings(set) ==
    { order \in [1..Cardinality(set) -> set] :
         \A i, j \in DOMAIN order : i # j => order[i] # order[j] }

\* lines 193-228: a second mixture gets the components of the first, or
\* those that were added first, in some order
CallBuildOther ==
    /\ mix_call.name = "add_component"
    /\ mix_call.error = NoError
    /\ \E chosen \in { 1..n : n \in 0..Len(mix_components) } :
          \E order \in Orderings(chosen) :
             LET additions == [k \in DOMAIN order |->
                                  LET component == mix_components[order[k]]
                                  IN  [smiles |-> component.smiles,
                                       mole_fraction |-> component.mole_fraction,
                                       impurity |-> component.impurity]]
             IN  /\ mix_other' = [class |-> "Mixture", components |-> BuildMixture(additions)]
                 /\ mix_call' = [name |-> "Mixture", additions |-> additions,
                                 error |-> NoError]
    /\ mix_state' = PyNone
    /\ mix_rebuilt' = PyNone
    /\ UNCHANGED << mix_components, vars, statistics_vars, dataset_vars >>

\* lines 193-197: Mixture()
MixtureInit ==
    /\ BootstrapIdle
    /\ StatisticsIdle
    /\ DataSetIdle
    /\ mix_components = << >>
    /\ mix_call = NoCall
    /\ mix_state = PyNone
    /\ mix_rebuilt = PyNone
    /\ mix_other = PyNone

MixtureNext ==
    \/ CallAddComponent
    \/ CallGetState
    \/ CallSetState
    \/ CallBuildOther

MixtureSpec == MixtureInit /\ [][MixtureNext]_all_vars

\* ------------------------------------------------------------------ C18
\* lines 158-162: MixtureComponent.__eq__
ComponentEq(component, other) ==
    /\ component.smiles = other.smiles
    /\ component.mole_fraction = other.mole_fraction
    /\ component.impurity = other.impurity

\* C18: the mixture rebuilt by __setstate__ from what __getstate__ returned,
\* component by component, is equal to the original mixture and has the
\* same identifier, whatever add_component calls made the original.
C18_RebuiltEqual ==
    mix_call.name = "__setstate__" =>
        /\ \A seed \in HashSeeds :
              MixtureEq(seed, mix_rebuilt.components, mix_components)
        /\ MixtureIdentifier(mix_rebuilt.components) = MixtureIdentifier(mix_components)
        /\ Len(mix_rebuilt.components) = Len(mix_components)
        /\ \A i \in DOMAIN mix_components :
              ComponentEq(mix_rebuilt.components[i], mix_components[i])

\* a mixture of an impurity and a component with a mole fraction was rebuilt
C18_Witness ==
    /\ mix_call.name = "__setstate__"
    /\ \E i, j \in DOMAIN mix_components :
          /\ mix_components[i].impurity
          /\ mix_components[j].mole_fraction.value > 0
    /\ Len(mix_rebuilt.components) = Len(mix_components)

\* ------------------------------------------------------------------ C19
\* the last call was add_component with impurity=True
ImpurityAdded == mix_call.name = "add_component" /\ mix_call.impurity

\* C19: add_component with impurity=True and a mole fraction of 0.0 or None
\* appends a component of mole fraction 0.0 and impurity True; with any
\* other mole fraction it raises ValueError and appends nothing.
C19_ImpurityFraction ==
    ImpurityAdded =>
        IF mix_call.mole_fraction \in { Float(0), PyNone }
        THEN /\ mix_call.error = NoError
             /\ mix_components =
                   Append(mix_call.before,
                          MixtureComponent(mix_call.smiles, Float(0), TRUE))
        ELSE /\ mix_call.error.type = "ValueError"
             /\ mix_components = mix_call.before

\* ------------------------------------------------------------------ C20
\* C20: after any add_component calls every component of the mixture has a
\* mole fraction from 0 to 1 and the mole fractions sum to at most 1; a call
\* that raised left the list of components as it was.
C20_FractionsBounded ==
    /\ \A i \in DOMAIN mix_components :
          /\ 0 <= mix_components[i].mole_fraction.value
          /\ mix_components[i].mole_fraction.value <= Unity
    /\ SumFractions(mix_components) <= Unity
    /\ (mix_call.name = "add_component" /\ mix_call.error # NoError) =>
          mix_components = mix_call.before
    /\ (mix_call.name = "add_component" /\ mix_call.error = NoError) =>
          /\ Len(mix_components) = Len(mix_call.before) + 1
          /\ SubSeq(mix_components, 1, Len(mix_call.before)) = mix_call.before

\* a mole fraction that would take the total above 1 was refused
C20_Witness ==
    /\ mix_call.name = "add_component"
    /\ mix_call.error = [type |-> "ValueError", line |-> 271]
    /\ Len(mix_components) >= 2
    /\ mix_call.mole_fraction.value <= Unity
    /\ mix_components = mix_call.before

\* a mole fraction above 1 was refused
C20_WitnessRange ==
    /\ mix_call.name = "add_component"
    /\ mix_call.error = [type |-> "ValueError", line |-> 261]
    /\ mix_call.mole_fraction.value > Unity

\* ------------------------------------------------------------------ C21
\* the two lists hold the same components, each as often as the other
SameMultiset(components, other) ==
    \A component \in SetOf(components) \cup SetOf(other) :
        Cardinality({ i \in DOMAIN components : components[i] = component })
            = Cardinality({ i \in DOMAIN other : other[i] = component })

C21_WitnessCollision ==
    /\ mix_other # PyNone
    /\ MixtureIdentifier(mix_other.components) # MixtureIdentifier(mix_components)
    /\ \E seed \in HashSeeds :
          MixtureEq(seed, mix_other.components, mix_components)

\* ================================================= PhysicalPropertyDataSet
MaxCalls == 3

\* the data sets
DataSets == { "a", "b" }

\* the substance keys, in the order a dictionary of both lists them
SubstanceHashes == << "C{1.000000}", "O{1.000000}" >>

\* the properties a data set holds at first
PropertiesOf == [a |-> << "a1", "a2" >>, b |-> << "b1", "b2" >>]

\* the keys of the dictionary of a data set, in the order of iteration
KeysOf(memory, data_set) ==
    SelectSeq(SubstanceHashes,
              LAMBDA key : key \in DOMAIN memory.properties[data_set])

\* data_set.properties[substance_hash], the list itself
PropertyList(memory, data_set, substance_hash) ==
    memory.heap[memory.properties[data_set][substance_hash]]

\* data_set.sources, the list itself
SourceList(memory, data_set) == memory.heap[memory.sources[data_set]]

\* slip: a key the data set lacks gets the other data set's list itself
ShareList(memory, self, substance_hash, data_set) ==
    IF substance_hash \in DOMAIN memory.properties[self]
    THEN memory
    ELSE [memory EXCEPT !.properties[self] =
             @ @@ (substance_hash :> memory.properties[data_set][substance_hash])]

\* lines 44-45: a key the data set lacks gets a new, empty list
EnsureList(memory, self, substance_hash, data_set) ==
    IF substance_hash \in DOMAIN memory.properties[self]
    THEN memory
    ELSE [memory EXCEPT !.heap = Append(@, << >>),
                        !.properties[self] =
                            @ @@ (substance_hash :> Len(memory.heap) + 1)]

\* lines 42-48: the loop over the keys of the other data set; lines 47-48
\* extend the list of the key by the other data set's
RECURSIVE MergeKeys(_, _, _, _)
MergeKeys(memory, self, keys, data_set) ==
    IF keys = << >> THEN memory
    ELSE LET ensured == EnsureList(memory, self, keys[1], data_set)
             other   == PropertyList(ensured, data_set, keys[1])
         IN  MergeKeys([ensured EXCEPT !.heap[ensured.properties[self][keys[1]]] =
                                           @ \o other],
                       self, Tail(keys), data_set)

\* lines 33-50
merge(memory, self, data_set) ==
    LET merged == MergeKeys(memory, self, KeysOf(memory, data_set), data_set)
    IN  [merged EXCEPT !.heap[merged.sources[self]] =
                           @ \o SourceList(merged, data_set)]

\* lines 65-66: list(filter(filter_function, ...)), a new list
RECURSIVE FilterKeys(_, _, _, _)
FilterKeys(memory, self, keys, filter_function) ==
    IF keys = << >> THEN memory
    ELSE LET kept == SelectSeq(PropertyList(memory, self, keys[1]),
                               LAMBDA x : x \in filter_function)
         IN  FilterKeys([memory EXCEPT !.heap = Append(@, kept),
                                       !.properties[self][keys[1]] =
                                           Len(memory.heap) + 1],
                        self, Tail(keys), filter_function)

\* lines 52-66
filter_by_function(memory, self, filter_function) ==
    FilterKeys(memory, self, KeysOf(memory, self), filter_function)

\* ------------------------------------------ data sets: the scenario
\* the dictionaries a data set may have at first: some of the keys, each
\* with a list of one or two properties
InitialDictionaries(data_set) ==
    LET lists == { << PropertiesOf[data_set][1] >>,
                   << PropertiesOf[data_set][2], PropertiesOf[data_set][1] >> }
    IN  UNION { [keys -> lists] : keys \in SUBSET SetOf(SubstanceHashes) }

\* the properties a filter function retains
FilterFunctions == { { "a1", "b1" }, { "a2", "b2" } }

\* every list of the dictionary becomes a list object of its own
RECURSIVE Store(_, _, _, _)
Store(memory, data_set, keys, dictionary) ==
    IF keys = << >> THEN memory
    ELSE Store([memory EXCEPT !.heap = Append(@, dictionary[keys[1]]),
                              !.properties[data_set] =
                                  @ @@ (keys[1] :> Len(memory.heap) + 1)],
               data_set, Tail(keys), dictionary)

\* lines 13-18, and a subclass filling _properties and _sources (the one
\* source of a data set is named after it)
NewDataSet(memory, data_set, dictionary) ==
    LET created == [memory EXCEPT !.heap = Append(@, << data_set >>),
                                  !.properties = @ @@ (data_set :> << >>),
                                  !.sources = @ @@ (data_set :> Len(memory.heap) + 1)]
    IN  Store(created, data_set,
              SelectSeq(SubstanceHashes, LAMBDA key : key \in DOMAIN dictionary),
              dictionary)

\* the lists, dictionaries and source lists as they are now
Now == [heap |-> ds_heap, properties |-> ds_properties, sources |-> ds_sources]

\* lines 33-50: self.merge(data_set), of two different data sets
CallMerge ==
    /\ ds_count < MaxCalls
    /\ \E self \in DataSets, data_set \in DataSets :
          /\ self # data_set
          /\ LET memory == merge(Now, self, data_set)
             IN  /\ ds_heap' = memory.heap
                 /\ ds_properties' = memory.properties
                 /\ ds_sources' = memory.sources
          /\ ds_call' = [name |-> "merge", self |-> self, data_set |-> data_set,
                         before |-> Now, error |-> NoError]
    /\ ds_count' = ds_count + 1
    /\ UNCHANGED << vars, statistics_vars, mixture_vars >>

\* lines 52-66: self.filter_by_function(filter_function)
CallFilterByFunction ==
    /\ ds_count < MaxCalls
    /\ \E self \in DataSets, filter_function \in FilterFunctions :
          /\ LET memory == filter_by_function(Now, self, filter_function)
             IN  /\ ds_heap' = memory.heap
                 /\ ds_properties' = memory.properties
                 /\ ds_sources' = memory.sources
          /\ ds_call' = [name |-> "filter_by_function", self |-> self,
                         filter_function |-> filter_function,
                         before |-> Now, error |-> NoError]
    /\ ds_count' = ds_count + 1
    /\ UNCHANGED << vars, statistics_vars, mixture_vars >>

DataSetInit ==
    /\ BootstrapIdle
    /\ StatisticsIdle
    /\ MixtureIdle
    /\ \E a \in InitialDictionaries("a"), b \in InitialDictionaries("b") :
          LET nothing == [heap |-> << >>, properties |-> << >>, sources |-> << >>]
              memory  == NewDataSet(NewDataSet(nothing, "a", a), "b", b)
          IN  /\ ds_heap = memory.heap
              /\ ds_properties = memory.properties
              /\ ds_sources = memory.sources
    /\ ds_call = NoCall
    /\ ds_count = 0

DataSetNext ==
    \/ CallMerge
    \/ CallFilterByFunction

DataSetSpec == DataSetInit /\ [][DataSetNext]_all_vars

\* ------------------------------------------------------------------ C22
\* the keys of a data set
Keys(memory, data_set) == DOMAIN memory.properties[data_set]

\* what a data set holds: the contents of the list of every key, and the
\* contents of the source list
Contents(memory, data_set) ==
    [properties |-> [key \in Keys(memory, data_set) |->
                        PropertyList(memory, data_set, key)],
     sources |-> SourceList(memory, data_set)]

\* the list objects of a data set
ListsOf(memory, data_set) ==
    { memory.properties[data_set][key] : key \in Keys(memory, data_set) }
        \cup { memory.sources[data_set] }

\* C22: after a.merge(b) of two different data sets, the list of every key
\* of b is what a had for the key followed by b's list, the keys a alone
\* has keep their lists, the sources of a are followed by those of b, and b
\* holds what it held; b shares no list with a, so that no later merge
\* into a and no filter of a changes what b holds.
C22_MergeAppends ==
    /\ ds_call.name = "merge" =>
          LET a      == ds_call.self
              b      == ds_call.data_set
              before == ds_call.before
          IN  /\ Keys(Now, a) = Keys(before, a) \cup Keys(before, b)
              /\ \A key \in Keys(before, b) :
                    PropertyList(Now, a, key) =
                        (IF key \in Keys(before, a)
                         THEN PropertyList(before, a, key) ELSE << >>)
                            \o PropertyList(before, b, key)
              /\ \A key \in Keys(before, a) \ Keys(before, b) :
                    PropertyList(Now, a, key) = PropertyList(before, a, key)
              /\ SourceList(Now, a) = SourceList(before, a) \o SourceList(before, b)
              /\ Contents(Now, b) = Contents(before, b)
    /\ ds_call.name = "filter_by_function" =>
          \A other \in DataSets \ { ds_call.self } :
              Contents(Now, other) = Contents(ds_call.before, other)
    /\ ListsOf(Now, "a") \cap ListsOf(Now, "b") = {}

\* after an earlier call, a.merge(b) met a key that both data sets held with
\* two or more properties each, and a key that a lacked
C22_Witness ==
    /\ ds_call.name = "merge"
    /\ ds_count >= 2
    /\ ds_call.before.properties # ds_properties
    /\ \E key \in Keys(ds_call.before, ds_call.data_set) :
          /\ key \in Keys(ds_call.before, ds_call.self)
          /\ Len(PropertyList(ds_call.before, ds_call.self, key)) >= 2
          /\ Len(PropertyList(ds_call.before, ds_call.data_set, key)) >= 2

\* a was filtered after b had been merged into it
C22_WitnessLater ==
    /\ ds_call.name = "filter_by_function"
    /\ ds_count = MaxCalls
    /\ Contents(Now, ds_call.self) # Contents(ds_call.before, ds_call.self)
    /\ \E key \in Keys(Now, ds_call.self) :
          \E i \in DOMAIN PropertyList(Now, ds_call.self, key) :
              PropertyList(Now, ds_call.self, key)[i] \notin
                  SetOf(PropertiesOf[ds_call.self])
====
